---------------------------- MODULE Spec2Model ----------------------------
(***************************************************************************)
(* A model of edfinity-to-ww-zipper.py: the name sanitizer, the path       *)
(* allocators, the Ctrl-C terminated line capture, the token-based PG      *)
(* block extractor and main, which writes one file per block and zips the  *)
(* folder.  Text is a sequence of one-character strings; an offset is      *)
(* 0-based as in Python, so s[p] of the source is s[p + 1] here.           *)
(***************************************************************************)
EXTENDS Integers, Sequences, FiniteSets, TLC

VARIABLES
    pc,             \* position of the run in main / in the function under study
    raw,            \* the string typed at the base-name prompt
    base,           \* the sanitized base name
    fs,             \* the working directory: path -> entry
    fs0,            \* history: fs when the current run of main began
    runs,           \* number of runs of main started so far
    exit,           \* history: outcome of the run ("running", "ok", "fatal")
    k,              \* the probe counter of unique_subfolder / unique_zip_path
    pg_subfolder,   \* the folder allocated by unique_subfolder
    zip_path,       \* the path allocated by unique_zip_path
    lines,          \* capture: the list `lines`
    line,           \* capture: the local `line` (<<>> until input() returns)
    readLog,        \* history: every line input() has returned in this capture
    big_text,       \* the captured / extracted-from text
    tokens,         \* extractor: the list of (pos, tok)
    ti,             \* extractor: index of the next token of the for loop
    level,          \* extractor: nesting counter
    current_start,  \* extractor: pending start offset, None when absent
    blocks,         \* extractor: list of blocks produced
    spans,          \* history: (current_start, pos) of every block appended
    fi              \* main: index of the next block to write

vars == <<pc, raw, base, fs, fs0, runs, exit, k, pg_subfolder, zip_path, lines,
          line, readLog, big_text, tokens, ti, level, current_start, blocks,
          spans, fi>>

---------------------------------------------------------------------------
(* Bounds of the model *)

MaxFrags == 5       \* fragments per text given to the extractor
MaxNameLen == 4     \* characters of a raw name given to the sanitizer
MaxLines == 2       \* lines one capture reads
MaxRuns == 2        \* runs of main in the same working directory
MaxExisting == 3    \* highest numeric suffix among pre-existing paths
MaxCapLines == 3    \* lines read by the capture studied on its own
MaxProcLines == 3   \* lines of a captured text given to the processing phase

---------------------------------------------------------------------------
(* Strings *)

RECURSIVE Concat(_)
Concat(ss) == IF ss = <<>> THEN <<>> ELSE Head(ss) \o Concat(Tail(ss))

Range(f) == {f[x] : x \in DOMAIN f}

\* Python slice s[a:b] for 0 <= a, b <= len(s)
Slice(s, a, b) == SubSeq(s, a + 1, b)

StartsWithAt(s, p, lit) ==
    /\ p + Len(lit) <= Len(s)
    /\ Slice(s, p, p + Len(lit)) = lit

IsPrefix(a, b) == Len(a) <= Len(b) /\ SubSeq(b, 1, Len(a)) = a

EndsWith(s, lit) ==
    /\ Len(lit) <= Len(s)
    /\ Slice(s, Len(s) - Len(lit), Len(s)) = lit

BEGIN_MARK == <<"D", "O", "C", "U", "M", "E", "N", "T", "(", ")", ";">>
END_MARK == <<"E", "N", "D">> \o BEGIN_MARK
NL == "\n"
CR == "\r"
None == -1

---------------------------------------------------------------------------
(* extract_pg_blocks_tokenized *)

\* faulty variant: every occurrence of either literal, overlapping ones included
FindIterOverlapping(s, p) ==
    LET Occ == {q \in p..(Len(s) - 1) :
                   StartsWithAt(s, q, BEGIN_MARK) \/ StartsWithAt(s, q, END_MARK)}
        RECURSIVE Sorted(_)
        Sorted(S) ==
            IF S = {} THEN <<>>
            ELSE LET m == CHOOSE x \in S : \A y \in S : x <= y
                 IN  <<[pos |-> m,
                        tok |-> IF StartsWithAt(s, m, BEGIN_MARK) THEN BEGIN_MARK
                                ELSE END_MARK]>> \o Sorted(S \ {m})
    IN  Sorted(Occ)

\* re.finditer(r'DOCUMENT\(\);|ENDDOCUMENT\(\);', s): leftmost match, the
\* alternatives tried in order at each offset, the scan resuming after a match.
RECURSIVE FindIter(_, _)
FindIter(s, p) ==
    IF p >= Len(s) THEN <<>>
    ELSE IF StartsWithAt(s, p, BEGIN_MARK)
         THEN <<[pos |-> p, tok |-> BEGIN_MARK]>> \o FindIter(s, p + Len(BEGIN_MARK))
    ELSE IF StartsWithAt(s, p, END_MARK)
         THEN <<[pos |-> p, tok |-> END_MARK]>> \o FindIter(s, p + Len(END_MARK))
    ELSE FindIter(s, p + 1)

Tokens(s) == FindIter(s, 0)

\* faulty variant: the block ends with the end marker, the rest of the line is dropped
LineEndAtMarker(s, end_pos) == end_pos

\* while end_pos < len(s) and s[end_pos] not in '\n': end_pos += 1
RECURSIVE LineEnd(_, _)
LineEnd(s, end_pos) ==
    IF end_pos < Len(s) /\ s[end_pos + 1] # NL THEN LineEnd(s, end_pos + 1)
    ELSE end_pos

EnsureNewline(block) == IF ~EndsWith(block, <<NL>>) THEN block \o <<NL>> ELSE block

CloseBlock(s, start, pos) ==
    EnsureNewline(Slice(s, start, LineEnd(s, pos + Len(END_MARK))))

\* level after a begin marker; level after an end marker seen with level > 0
LevelUp(l) == l + 1
LevelDown(l) == l - 1

\* the pending start after a begin marker at pos
StartAtBegin(l, cur, pos) == IF l = 0 THEN pos ELSE cur

ExtractVars == <<big_text, tokens, ti, level, current_start, blocks, spans>>
OtherVars == <<raw, base, fs, fs0, runs, exit, k, pg_subfolder, zip_path, lines,
               line, readLog, fi>>

ExtractStart ==
    /\ pc = "extract"
    /\ tokens' = Tokens(big_text)
    /\ blocks' = <<>>
    /\ spans' = <<>>
    /\ level' = 0
    /\ current_start' = None
    /\ ti' = 1
    /\ pc' = IF Tokens(big_text) = <<>> THEN "extracted" ELSE "loop"
    /\ UNCHANGED <<big_text, OtherVars>>

BeginToken ==
    /\ pc = "loop"
    /\ ti <= Len(tokens)
    /\ tokens[ti].tok = BEGIN_MARK
    /\ current_start' = StartAtBegin(level, current_start, tokens[ti].pos)
    /\ level' = LevelUp(level)
    /\ ti' = ti + 1
    /\ UNCHANGED <<pc, big_text, tokens, blocks, spans, OtherVars>>

EndToken ==
    /\ pc = "loop"
    /\ ti <= Len(tokens)
    /\ tokens[ti].tok # BEGIN_MARK
    /\ level > 0
    /\ level' = LevelDown(level)
    /\ IF level' = 0 /\ current_start # None
       THEN /\ blocks' = Append(blocks, CloseBlock(big_text, current_start, tokens[ti].pos))
            /\ spans' = Append(spans, [start |-> current_start, pos |-> tokens[ti].pos])
            /\ current_start' = None
       ELSE UNCHANGED <<blocks, spans, current_start>>
    /\ ti' = ti + 1
    /\ UNCHANGED <<pc, big_text, tokens, OtherVars>>

\* faulty variant: the end marker decrements the counter whatever its value
StrayEndTokenDecrement ==
    /\ pc = "loop"
    /\ ti <= Len(tokens)
    /\ tokens[ti].tok # BEGIN_MARK
    /\ ~(level > 0)
    /\ level' = level - 1
    /\ ti' = ti + 1
    /\ UNCHANGED <<pc, big_text, tokens, current_start, blocks, spans, OtherVars>>

StrayEndToken ==
    /\ pc = "loop"
    /\ ti <= Len(tokens)
    /\ tokens[ti].tok # BEGIN_MARK
    /\ ~(level > 0)
    /\ ti' = ti + 1
    /\ UNCHANGED <<pc, big_text, tokens, level, current_start, blocks, spans, OtherVars>>

\* faulty variant: a block still open after the last token is emitted up to the end of text
ReturnBlocksFlush ==
    /\ pc = "loop"
    /\ ti > Len(tokens)
    /\ pc' = "extracted"
    /\ IF level > 0 /\ current_start # None
       THEN /\ blocks' = Append(blocks, EnsureNewline(Slice(big_text, current_start, Len(big_text))))
            /\ spans' = Append(spans, [start |-> current_start, pos |-> Len(big_text)])
       ELSE UNCHANGED <<blocks, spans>>
    /\ UNCHANGED <<big_text, tokens, ti, level, current_start, OtherVars>>

ReturnBlocks ==
    /\ pc = "loop"
    /\ ti > Len(tokens)
    /\ pc' = "extracted"
    /\ UNCHANGED <<ExtractVars, OtherVars>>

---------------------------------------------------------------------------
(* The extractor on its own, called with any text *)

Frags == {BEGIN_MARK, END_MARK, <<"E", "N", "D">>, <<"x">>, <<NL>>}

RECURSIVE FragSeqs(_)
FragSeqs(n) ==
    IF n = 0 THEN {<<>>}
    ELSE LET shorter == FragSeqs(n - 1)
         IN  shorter \cup {Append(q, f) : q \in {r \in shorter : Len(r) = n - 1}, f \in Frags}

Texts == {Concat(q) : q \in FragSeqs(MaxFrags)}

NoFs == <<>>

InitExtract ==
    /\ pc = "extract"
    /\ big_text \in Texts
    /\ tokens = <<>> /\ ti = 1 /\ level = 0 /\ current_start = None
    /\ blocks = <<>> /\ spans = <<>>
    /\ raw = <<>> /\ base = <<>> /\ fs = NoFs /\ fs0 = NoFs /\ runs = 0
    /\ exit = "running" /\ k = 0 /\ pg_subfolder = <<>> /\ zip_path = <<>>
    /\ lines = <<>> /\ line = <<>> /\ readLog = <<>> /\ fi = 1

NextExtract ==
    \/ ExtractStart
    \/ BeginToken
    \/ EndToken
    \/ StrayEndToken
    \/ ReturnBlocks

SpecExtract == InitExtract /\ [][NextExtract]_vars

---------------------------------------------------------------------------
(* sanitize_basename *)

Letters ==
    {"a", "b", "c", "d", "e", "f", "g", "h", "i", "j", "k", "l", "m", "n", "o", "p",
     "q", "r", "s", "t", "u", "v", "w", "x", "y", "z", "A", "B", "C", "D", "E", "F",
     "G", "H", "I", "J", "K", "L", "M", "N", "O", "P", "Q", "R", "S", "T", "U", "V",
     "W", "X", "Y", "Z"}
Digits == {"0", "1", "2", "3", "4", "5", "6", "7", "8", "9"}
ALLOWED_CHARS == Letters \cup Digits \cup {" ", "_", ".", "-"}

\* the characters str.strip() and str.split() treat as whitespace
WhiteSpace == {" ", "\t", NL, CR, "\f"}

DEFAULT_NAME ==
    <<"w", "e", "b", "w", "o", "r", "k", "-", "p", "r", "o", "b", "l", "e", "m", "s">>

RECURSIVE LStrip(_, _)
LStrip(s, chars) ==
    IF s # <<>> /\ Head(s) \in chars THEN LStrip(Tail(s), chars) ELSE s

RECURSIVE RStrip(_, _)
RStrip(s, chars) ==
    IF s # <<>> /\ s[Len(s)] \in chars THEN RStrip(SubSeq(s, 1, Len(s) - 1), chars)
    ELSE s

\* str.strip(chars)
Strip(s, chars) == RStrip(LStrip(s, chars), chars)

\* "".join(ch for ch in name if ch in ALLOWED_CHARS)
RECURSIVE KeepAllowed(_)
KeepAllowed(s) ==
    IF s = <<>> THEN <<>>
    ELSE IF Head(s) \in ALLOWED_CHARS THEN <<Head(s)>> \o KeepAllowed(Tail(s))
    ELSE KeepAllowed(Tail(s))

\* str.split(): the maximal runs of non-whitespace characters
RECURSIVE SplitWords(_, _)
SplitWords(s, word) ==
    IF s = <<>> THEN (IF word = <<>> THEN <<>> ELSE <<word>>)
    ELSE IF Head(s) \in WhiteSpace
         THEN (IF word = <<>> THEN <<>> ELSE <<word>>) \o SplitWords(Tail(s), <<>>)
    ELSE SplitWords(Tail(s), Append(word, Head(s)))

\* sep.join(words)
RECURSIVE Join(_, _)
Join(sep, words) ==
    IF words = <<>> THEN <<>>
    ELSE IF Len(words) = 1 THEN words[1]
    ELSE words[1] \o sep \o Join(sep, Tail(words))

\* str.replace(old, new) for a one-character old
ReplaceChar(s, old, new) == [i \in DOMAIN s |-> IF s[i] = old THEN new ELSE s[i]]

sanitize_basename(name) ==
    LET n1 == Strip(name, WhiteSpace)
        n2 == KeepAllowed(n1)
        n3 == Join(<<" ">>, SplitWords(n2, <<>>))
        n4 == Strip(ReplaceChar(n3, " ", "-"), {" ", ".", "-"})
    IN  IF n4 = <<>> THEN DEFAULT_NAME ELSE n4

RunVars == <<fs, fs0, runs, exit, k, pg_subfolder, zip_path, lines, line, readLog, fi>>

Sanitize ==
    /\ pc = "sanitize"
    /\ base' = sanitize_basename(raw)
    /\ pc' = "sanitized"
    /\ UNCHANGED <<raw, RunVars, ExtractVars>>

NameChars == {"a", "1", "_", " ", "\t", "!", ".", "-"}

RECURSIVE StringsUpTo(_, _)
StringsUpTo(chars, n) ==
    IF n = 0 THEN {<<>>}
    ELSE LET shorter == StringsUpTo(chars, n - 1)
         IN  shorter \cup {Append(q, c) : q \in {r \in shorter : Len(r) = n - 1}, c \in chars}

InitSanitize ==
    /\ pc = "sanitize"
    /\ raw \in StringsUpTo(NameChars, MaxNameLen)
    /\ base = <<>>
    /\ big_text = <<>> /\ tokens = <<>> /\ ti = 1 /\ level = 0 /\ current_start = None
    /\ blocks = <<>> /\ spans = <<>>
    /\ fs = NoFs /\ fs0 = NoFs /\ runs = 0
    /\ exit = "running" /\ k = 0 /\ pg_subfolder = <<>> /\ zip_path = <<>>
    /\ lines = <<>> /\ line = <<>> /\ readLog = <<>> /\ fi = 1

NextSanitize == Sanitize

SpecSanitize == InitSanitize /\ [][NextSanitize]_vars

---------------------------------------------------------------------------
(* Paths and the working directory.  A path is relative to ROOT = Path.cwd(); *)
(* fs maps every existing path to its entry.                                  *)

DirEntry == [kind |-> "dir", data |-> <<>>, members |-> {}]
FileEntry(d) == [kind |-> "file", data |-> d, members |-> {}]
ZipEntry(ms) == [kind |-> "zip", data |-> <<>>, members |-> ms]

\* Path.exists()
Exists(f, p) == p \in DOMAIN f

\* creating or overwriting the entry at p
Put(f, p, e) == (p :> e) @@ f

DigitChar == <<"0", "1", "2", "3", "4", "5", "6", "7", "8", "9">>

\* str(k) of an f-string
RECURSIVE DecStr(_)
DecStr(n) ==
    IF n < 10 THEN <<DigitChar[n + 1]>>
    ELSE DecStr(n \div 10) \o <<DigitChar[(n % 10) + 1]>>

PG_DIR == <<"p", "g", "-", "f", "o", "l", "d", "e", "r", "s">>
SLASH == <<"/">>
ZIP_EXT == <<".", "z", "i", "p">>
PG_EXT == <<".", "p", "g">>

\* pg_dir = "pg-folders/" + base
PgDir(b) == PG_DIR \o SLASH \o b

\* faulty variant: the suffixed candidates are numbered from 2
FolderCandFromTwo(b, kk) == IF kk = 0 THEN b ELSE b \o <<"-">> \o DecStr(kk + 1)

\* the candidates of unique_subfolder(root, b): p, then q for k = 1, 2, ...
FolderCand(b, kk) == IF kk = 0 THEN b ELSE b \o <<"-">> \o DecStr(kk)

\* the candidates of unique_zip_path(root, b): z, then q for k = 1, 2, ...
ZipCand(b, kk) ==
    IF kk = 0 THEN b \o ZIP_EXT ELSE b \o <<"-">> \o DecStr(kk) \o ZIP_EXT

\* PurePath.with_suffix(""): the name without its last suffix
RECURSIVE LastDot(_, _)
LastDot(s, i) == IF i = 0 \/ s[i] = "." THEN i ELSE LastDot(s, i - 1)

WithSuffixEmpty(p) ==
    LET i == LastDot(p, Len(p))
    IN  IF 1 < i /\ i < Len(p) /\ p[i - 1] # "/" THEN SubSeq(p, 1, i - 1) ELSE p

\* the file shutil.make_archive(base_no_ext, "zip", ...) writes
ArchivePath(zip_target) == WithSuffixEmpty(zip_target) \o ZIP_EXT

\* Path.name
RECURSIVE LastSlash(_, _)
LastSlash(s, i) == IF i = 0 \/ s[i] = "/" THEN i ELSE LastSlash(s, i - 1)

PathName(p) == SubSeq(p, LastSlash(p, Len(p)) + 1, Len(p))

\* the members of the archive of `folder`: the folder and the files below it,
\* named relative to folder.parent
ArchiveMembers(f, folder) ==
    LET drop == Len(folder) - Len(PathName(folder))
    IN  {[name |-> PathName(folder) \o SLASH, data |-> <<>>]} \cup
        {[name |-> SubSeq(q, drop + 1, Len(q)), data |-> f[q].data] :
            q \in {r \in DOMAIN f : IsPrefix(folder \o SLASH, r)}}

\* path = pg_subfolder / f"{base}-{i}.pg"
BlockFile(folder, b, i) == folder \o SLASH \o b \o <<"-">> \o DecStr(i) \o PG_EXT

AllocVars == <<k, pg_subfolder, zip_path>>
CaptureVars == <<lines, line, readLog>>

---------------------------------------------------------------------------
(* unique_subfolder and unique_zip_path, one probe per step *)

ProbeFolderFree ==
    /\ pc = "probe_folder"
    /\ ~Exists(fs, FolderCand(PgDir(base), k))
    /\ pg_subfolder' = FolderCand(PgDir(base), k)
    /\ pc' = "mkdir"
    /\ UNCHANGED <<raw, base, fs, fs0, runs, exit, k, zip_path, CaptureVars, fi, ExtractVars>>

ProbeFolderTaken ==
    /\ pc = "probe_folder"
    /\ Exists(fs, FolderCand(PgDir(base), k))
    /\ k' = k + 1
    /\ UNCHANGED <<pc, raw, base, fs, fs0, runs, exit, pg_subfolder, zip_path,
                   CaptureVars, fi, ExtractVars>>

\* faulty variant: the unsuffixed zip path is returned without the existence test
ProbeZipFreeUnchecked ==
    /\ pc = "probe_zip"
    /\ k = 0 \/ ~Exists(fs, ZipCand(base, k))
    /\ zip_path' = ZipCand(base, k)
    /\ pc' = "archive"
    /\ UNCHANGED <<raw, base, fs, fs0, runs, exit, k, pg_subfolder, CaptureVars, fi,
                   ExtractVars>>

ProbeZipFree ==
    /\ pc = "probe_zip"
    /\ ~Exists(fs, ZipCand(base, k))
    /\ zip_path' = ZipCand(base, k)
    /\ pc' = "archive"
    /\ UNCHANGED <<raw, base, fs, fs0, runs, exit, k, pg_subfolder, CaptureVars, fi,
                   ExtractVars>>

ProbeZipTaken ==
    /\ pc = "probe_zip"
    /\ Exists(fs, ZipCand(base, k))
    /\ k' = k + 1
    /\ UNCHANGED <<pc, raw, base, fs, fs0, runs, exit, pg_subfolder, zip_path,
                   CaptureVars, fi, ExtractVars>>

---------------------------------------------------------------------------
(* capture_lines_until_ctrl_c.  pc = "input": blocked in input();           *)
(* pc = "append": a line has been read from the stream and lines.append     *)
(* has not run yet.  KeyboardInterrupt is raised at whichever of the two    *)
(* points the signal finds the process.                                     *)

\* str.replace("\r\n", "\n")
RECURSIVE ReplaceCRLF(_)
ReplaceCRLF(s) ==
    IF s = <<>> THEN <<>>
    ELSE IF Len(s) >= 2 /\ s[1] = CR /\ s[2] = NL
         THEN <<NL>> \o ReplaceCRLF(SubSeq(s, 3, Len(s)))
    ELSE <<Head(s)>> \o ReplaceCRLF(Tail(s))

\* "".join(lines).replace("\r\n", "\n").replace("\r", "\n")
NormalizeText(ls) == ReplaceChar(ReplaceCRLF(Concat(ls)), CR, NL)

ReadLine(l, max) ==
    /\ pc = "input"
    /\ Len(readLog) < max
    /\ line' = l
    /\ readLog' = Append(readLog, l)
    /\ pc' = "append"
    /\ UNCHANGED <<raw, base, fs, fs0, runs, exit, AllocVars, lines, fi, ExtractVars>>

AppendLine ==
    /\ pc = "append"
    /\ lines' = Append(lines, line \o <<NL>>)
    /\ pc' = "input"
    /\ UNCHANGED <<raw, base, fs, fs0, runs, exit, AllocVars, line, readLog, fi,
                   ExtractVars>>

\* except KeyboardInterrupt: pass; the function returns text, its locals end
Interrupt ==
    /\ pc \in {"input", "append"}
    /\ big_text' = NormalizeText(lines)
    /\ lines' = <<>>
    /\ line' = <<>>
    /\ pc' = "captured"
    /\ UNCHANGED <<raw, base, fs, fs0, runs, exit, AllocVars, readLog, fi, tokens,
                   ti, level, current_start, blocks, spans>>

---------------------------------------------------------------------------
(* main *)

\* faulty variant: the text is tested without strip()
IsBlankEmptyOnly(text) == text = <<>>

\* not big_text.strip()
IsBlank(text) == Strip(text, WhiteSpace) = <<>>

Prompt(r) ==
    /\ pc = "prompt"
    /\ raw' = Strip(r, WhiteSpace)
    /\ base' = sanitize_basename(IF Strip(r, WhiteSpace) = <<>> THEN DEFAULT_NAME
                                 ELSE Strip(r, WhiteSpace))
    /\ k' = 0
    /\ pc' = "probe_folder"
    /\ UNCHANGED <<fs, fs0, runs, exit, pg_subfolder, zip_path, CaptureVars, fi,
                   ExtractVars>>

\* pg_subfolder.mkdir(parents=True, exist_ok=False)
Mkdir ==
    /\ pc = "mkdir"
    /\ IF Exists(fs, pg_subfolder)
       THEN /\ pc' = "crashed"
            /\ exit' = "error"
            /\ fs' = fs
       ELSE /\ pc' = "input"
            /\ exit' = exit
            /\ fs' = Put(IF Exists(fs, PG_DIR) THEN fs ELSE Put(fs, PG_DIR, DirEntry),
                         pg_subfolder, DirEntry)
    /\ UNCHANGED <<raw, base, fs0, runs, AllocVars, CaptureVars, fi, ExtractVars>>

CheckBlank ==
    /\ pc = "captured"
    /\ IF IsBlank(big_text)
       THEN pc' = "exited" /\ exit' = "ok"
       ELSE pc' = "extract" /\ exit' = exit
    /\ readLog' = <<>>
    /\ UNCHANGED <<raw, base, fs, fs0, runs, AllocVars, lines, line, fi, ExtractVars>>

CheckBlocks ==
    /\ pc = "extracted"
    /\ IF blocks = <<>>
       THEN pc' = "exited" /\ exit' = "fatal"
       ELSE pc' = "write" /\ exit' = exit
    /\ fi' = 1
    /\ UNCHANGED <<raw, base, fs, fs0, runs, AllocVars, CaptureVars, ExtractVars>>

WriteBlock ==
    /\ pc = "write"
    /\ fi <= Len(blocks)
    /\ fs' = Put(fs, BlockFile(pg_subfolder, base, fi), FileEntry(blocks[fi]))
    /\ fi' = fi + 1
    /\ pc' = IF fi = Len(blocks) THEN "probe_zip" ELSE "write"
    /\ k' = 0
    /\ UNCHANGED <<raw, base, fs0, runs, exit, pg_subfolder, zip_path, CaptureVars,
                   ExtractVars>>

MakeArchive ==
    /\ pc = "archive"
    /\ fs' = Put(fs, ArchivePath(zip_path), ZipEntry(ArchiveMembers(fs, pg_subfolder)))
    /\ pc' = "exited"
    /\ exit' = "ok"
    /\ UNCHANGED <<raw, base, fs0, runs, AllocVars, CaptureVars, fi, ExtractVars>>

\* the tool is run again in the same working directory
NextRun ==
    /\ pc = "exited"
    /\ runs < MaxRuns
    /\ runs' = runs + 1
    /\ fs0' = fs
    /\ pc' = "prompt"
    /\ exit' = "running"
    /\ raw' = <<>> /\ base' = <<>>
    /\ k' = 0 /\ pg_subfolder' = <<>> /\ zip_path' = <<>>
    /\ lines' = <<>> /\ line' = <<>> /\ readLog' = <<>>
    /\ big_text' = <<>> /\ tokens' = <<>> /\ ti' = 1 /\ level' = 0
    /\ current_start' = None /\ blocks' = <<>> /\ spans' = <<>> /\ fi' = 1
    /\ UNCHANGED fs

MainRaw == {<<>>, <<" ", "x", "!">>, <<"x", "-", "1">>}
MainLines == {BEGIN_MARK \o END_MARK, END_MARK, <<" ">>}

X_NAME == <<"x">>

\* what an earlier run with base name x and one block has left behind
PriorFs ==
    LET folder == PgDir(X_NAME)
        f1 == Put(Put(NoFs, PG_DIR, DirEntry), folder, DirEntry)
        f2 == Put(f1, BlockFile(folder, X_NAME, 1), FileEntry(BEGIN_MARK \o END_MARK \o <<NL>>))
    IN  Put(f2, ZipCand(X_NAME, 0), ZipEntry(ArchiveMembers(f2, folder)))

Init ==
    /\ pc = "prompt"
    /\ runs = 1
    /\ fs \in {NoFs, PriorFs}
    /\ fs0 = fs
    /\ exit = "running"
    /\ raw = <<>> /\ base = <<>>
    /\ k = 0 /\ pg_subfolder = <<>> /\ zip_path = <<>>
    /\ lines = <<>> /\ line = <<>> /\ readLog = <<>>
    /\ big_text = <<>> /\ tokens = <<>> /\ ti = 1 /\ level = 0
    /\ current_start = None /\ blocks = <<>> /\ spans = <<>> /\ fi = 1

Next ==
    \/ \E r \in MainRaw : Prompt(r)
    \/ ProbeFolderFree
    \/ ProbeFolderTaken
    \/ Mkdir
    \/ \E l \in MainLines : ReadLine(l, MaxLines)
    \/ AppendLine
    \/ Interrupt
    \/ CheckBlank
    \/ ExtractStart
    \/ BeginToken
    \/ EndToken
    \/ StrayEndToken
    \/ ReturnBlocks
    \/ CheckBlocks
    \/ WriteBlock
    \/ ProbeZipFree
    \/ ProbeZipTaken
    \/ MakeArchive
    \/ NextRun

Spec == Init /\ [][Next]_vars

---------------------------------------------------------------------------
(* The allocators on their own, called in any working directory *)

AllocBases == {X_NAME, <<"x", "-", "1">>}

AllocNames == {FolderCand(b, j) : b \in AllocBases, j \in 0..MaxExisting}

\* a directory holding the folders, the zips, or both, of a set of names
DirOf(names, kinds) ==
    LET dirs == {PgDir(n) : n \in IF "dir" \in kinds THEN names ELSE {}}
        zips == {n \o ZIP_EXT : n \in IF "zip" \in kinds THEN names ELSE {}}
    IN  [p \in dirs \cup zips |-> IF p \in dirs THEN DirEntry ELSE ZipEntry({})]

InitAlloc ==
    /\ pc \in {"probe_folder", "probe_zip"}
    /\ base \in AllocBases
    /\ \E names \in SUBSET AllocNames :
          \E kinds \in {{"dir"}, {"zip"}, {"dir", "zip"}} : fs = DirOf(names, kinds)
    /\ fs0 = fs
    /\ runs = 1
    /\ exit = "running"
    /\ raw = base
    /\ k = 0 /\ pg_subfolder = <<>> /\ zip_path = <<>>
    /\ lines = <<>> /\ line = <<>> /\ readLog = <<>>
    /\ big_text = <<>> /\ tokens = <<>> /\ ti = 1 /\ level = 0
    /\ current_start = None /\ blocks = <<>> /\ spans = <<>> /\ fi = 1

NextAlloc ==
    \/ ProbeFolderFree
    \/ ProbeFolderTaken
    \/ ProbeZipFree
    \/ ProbeZipTaken

SpecAlloc == InitAlloc /\ [][NextAlloc]_vars

---------------------------------------------------------------------------
(* The capture on its own *)

CapLines == StringsUpTo({"a", CR}, 2)

InitCapture ==
    /\ pc = "input"
    /\ lines = <<>> /\ line = <<>> /\ readLog = <<>>
    /\ big_text = <<>> /\ tokens = <<>> /\ ti = 1 /\ level = 0
    /\ current_start = None /\ blocks = <<>> /\ spans = <<>> /\ fi = 1
    /\ fs = NoFs /\ fs0 = NoFs /\ runs = 1 /\ exit = "running"
    /\ raw = <<>> /\ base = <<>>
    /\ k = 0 /\ pg_subfolder = <<>> /\ zip_path = <<>>

NextCapture ==
    \/ \E l \in CapLines : ReadLine(l, MaxCapLines)
    \/ AppendLine
    \/ Interrupt

SpecCapture == InitCapture /\ [][NextCapture]_vars

---------------------------------------------------------------------------
(* The processing phase of main, after a capture that returned any text of  *)
(* newline-terminated lines, in a directory with or without an earlier zip  *)

ProcLines ==
    {BEGIN_MARK, END_MARK, END_MARK \o <<" ", "%">>, <<"x">>,
     BEGIN_MARK \o <<"x">> \o END_MARK}

ProcTexts ==
    {Concat([i \in DOMAIN ls |-> ls[i] \o <<NL>>]) : ls \in StringsUpTo(ProcLines, MaxProcLines)}

InitProcess ==
    /\ pc = "captured"
    /\ big_text \in ProcTexts
    /\ raw = X_NAME /\ base = X_NAME
    /\ \E prior \in {NoFs, PriorFs} :
          /\ fs0 = prior
          /\ pg_subfolder = FolderCand(PgDir(X_NAME), IF prior = NoFs THEN 0 ELSE 1)
          /\ fs = Put(IF Exists(prior, PG_DIR) THEN prior ELSE Put(prior, PG_DIR, DirEntry),
                      pg_subfolder, DirEntry)
    /\ k = IF fs0 = NoFs THEN 0 ELSE 1
    /\ zip_path = <<>>
    /\ runs = 1 /\ exit = "running"
    /\ lines = <<>> /\ line = <<>> /\ readLog = <<>>
    /\ tokens = <<>> /\ ti = 1 /\ level = 0
    /\ current_start = None /\ blocks = <<>> /\ spans = <<>> /\ fi = 1

NextProcess ==
    \/ CheckBlank
    \/ ExtractStart
    \/ BeginToken
    \/ EndToken
    \/ StrayEndToken
    \/ ReturnBlocks
    \/ CheckBlocks
    \/ WriteBlock
    \/ ProbeZipFree
    \/ ProbeZipTaken
    \/ MakeArchive

SpecProcess == InitProcess /\ [][NextProcess]_vars

---------------------------------------------------------------------------
(* Marker occurrences of a text, stated without the scan: an end marker is *)
(* an occurrence of its literal, a begin marker an occurrence of its       *)
(* literal that is not the tail of an end marker.                          *)

Offsets(s) == 0..(Len(s) - 1)
EndOcc(s) == {p \in Offsets(s) : StartsWithAt(s, p, END_MARK)}
BeginOcc(s) ==
    {p \in Offsets(s) : StartsWithAt(s, p, BEGIN_MARK) /\ (p - 3) \notin EndOcc(s)}
Markers(s) == BeginOcc(s) \cup EndOcc(s)
Rank(S, m) == Cardinality({x \in S : x < m})
Nth(S, i) == CHOOSE m \in S : Rank(S, m) = i - 1

\* the markers of s, in order, are begin, end, begin, end, ...
WellFormedPairs(s) ==
    /\ Cardinality(Markers(s)) % 2 = 0
    /\ \A m \in Markers(s) : (Rank(Markers(s), m) % 2 = 0) <=> (m \in BeginOcc(s))

Extracted == pc = "extracted"

\* C1: a text whose markers are N well-formed, non-nested pairs in sequence
\* gives exactly N blocks, the i-th opened by the i-th begin marker and
\* running through the i-th end marker.
C1_PairsGiveBlocksInOrder ==
    (Extracted /\ WellFormedPairs(big_text)) =>
        /\ Len(blocks) = Cardinality(BeginOcc(big_text))
        /\ \A i \in 1..Len(blocks) :
              /\ spans[i].start = Nth(BeginOcc(big_text), i)
              /\ spans[i].pos = Nth(EndOcc(big_text), i)
              /\ IsPrefix(Slice(big_text, Nth(BeginOcc(big_text), i),
                                Nth(EndOcc(big_text), i) + Len(END_MARK)),
                          blocks[i])

C1_Witness ==
    /\ Extracted
    /\ WellFormedPairs(big_text)
    /\ Len(blocks) = 2
    /\ big_text[1] = "x"

\* C2: two begin markers followed by one end marker, and no other marker,
\* give exactly one block, from the first begin marker to the end marker.
TwoBeginsOneEnd(s) ==
    /\ Cardinality(BeginOcc(s)) = 2
    /\ Cardinality(EndOcc(s)) = 1
    /\ \A b \in BeginOcc(s) : \A e \in EndOcc(s) : b < e

C2_NestedBeginsGiveOneBlock ==
    (Extracted /\ TwoBeginsOneEnd(big_text)) =>
        /\ Len(blocks) = 1
        /\ spans[1].start = Nth(BeginOcc(big_text), 1)
        /\ spans[1].pos = Nth(EndOcc(big_text), 1)

\* C4: a block still open after the last token gives no output (no block
\* starts at the pending start, every block closed before it), and a text
\* with a begin marker and no end marker after the first begin marker gives
\* zero blocks; the extractor always runs to its return.
NoEndAfterFirstBegin(s) ==
    /\ BeginOcc(s) # {}
    /\ \A e \in EndOcc(s) : e < Nth(BeginOcc(s), 1)

C4_UnterminatedBlockDropped ==
    /\ (Extracted /\ level > 0) =>
          /\ current_start \in BeginOcc(big_text)
          /\ \A i \in 1..Len(blocks) :
                spans[i].start # current_start /\ spans[i].pos < current_start
    /\ (Extracted /\ NoEndAfterFirstBegin(big_text)) => blocks = <<>>
    /\ Extracted \/ ENABLED NextExtract

C4_Witness ==
    /\ Extracted
    /\ level > 0
    /\ Len(blocks) = 1
    /\ Cardinality(EndOcc(big_text)) = 2

\* C10: the counter is never negative; an end marker seen while the counter
\* is zero changes neither the counter, the pending start nor the blocks;
\* and after such end markers a well-formed pair still gives its block.
StrayEndNext ==
    /\ pc = "loop"
    /\ ti <= Len(tokens)
    /\ tokens[ti].tok = END_MARK
    /\ level = 0

LeadingEnds(s) == {e \in EndOcc(s) : \A b \in BeginOcc(s) : e < b}

StrayEndsThenPairs(s) ==
    LET rest == Markers(s) \ LeadingEnds(s)
    IN  /\ LeadingEnds(s) # {}
        /\ rest # {}
        /\ Cardinality(rest) % 2 = 0
        /\ \A m \in rest : (Rank(rest, m) % 2 = 0) <=> (m \in BeginOcc(s))

C10_StrayEndIsNoOp ==
    /\ [](level >= 0)
    /\ [][StrayEndNext =>
            /\ level' = level
            /\ current_start' = current_start
            /\ blocks' = blocks
            /\ pc' = "loop"
            /\ ti' = ti + 1]_vars
    /\ []((Extracted /\ StrayEndsThenPairs(big_text)) =>
            /\ Len(blocks) = Cardinality(BeginOcc(big_text))
            /\ \A i \in 1..Len(blocks) : spans[i].start = Nth(BeginOcc(big_text), i))

C10_Witness ==
    /\ Extracted
    /\ StrayEndsThenPairs(big_text)
    /\ Cardinality(LeadingEnds(big_text)) = 2
    /\ Len(blocks) = 1

---------------------------------------------------------------------------
(* sanitize_basename against its description *)

\* the words of the input (runs of non-whitespace), each reduced to its allowed
\* characters, the empty ones dropped, joined by single hyphens, then trimmed
RECURSIVE DropEmpty(_)
DropEmpty(ws) ==
    IF ws = <<>> THEN <<>>
    ELSE IF Head(ws) = <<>> THEN DropEmpty(Tail(ws))
    ELSE <<Head(ws)>> \o DropEmpty(Tail(ws))

HyphenatedWords(name) ==
    LET ws == SplitWords(name, <<>>)
        kept == DropEmpty([i \in DOMAIN ws |-> SelectSeq(ws[i], LAMBDA c : c \in ALLOWED_CHARS)])
    IN  Strip(Join(<<"-">>, kept), {" ", ".", "-"})

Sanitized == pc = "sanitized"

\* C9: the result is non-empty, holds only allowed characters, has every
\* internal whitespace run of the input collapsed to one hyphen and the
\* separators trimmed at both ends, and is the default when nothing remains.
C9_SanitizeCollapsesWhitespace ==
    Sanitized =>
        /\ base # <<>>
        /\ Range(base) \subseteq ALLOWED_CHARS
        /\ base[1] \notin {" ", ".", "-"} /\ base[Len(base)] \notin {" ", ".", "-"}
        /\ base = (IF HyphenatedWords(raw) = <<>> THEN DEFAULT_NAME
                   ELSE HyphenatedWords(raw))

\* the same statement holds of every input whose only whitespace is the space
SanitizeAgreesOnSpaces ==
    (Sanitized /\ Range(raw) \cap (WhiteSpace \ {" "}) = {}) =>
        /\ base # <<>>
        /\ Range(base) \subseteq ALLOWED_CHARS \ {" "}
        /\ base[1] \notin {" ", ".", "-"} /\ base[Len(base)] \notin {" ", ".", "-"}
        /\ base = (IF HyphenatedWords(raw) = <<>> THEN DEFAULT_NAME
                   ELSE HyphenatedWords(raw))

---------------------------------------------------------------------------
(* The allocators against their description *)

Suffixed(b, j) == IF j = 0 THEN b ELSE b \o <<"-">> \o DecStr(j)

\* the least j whose candidate is absent; one of 0..n is, n the number of entries
FirstFree(Cand(_)) ==
    LET free == {j \in 0..Cardinality(DOMAIN fs) : Cand(j) \notin DOMAIN fs}
    IN  CHOOSE j \in free : \A i \in free : j <= i

FolderPath(j) == PG_DIR \o SLASH \o Suffixed(base, j)
ZipPath(j) == Suffixed(base, j) \o ZIP_EXT

\* C7: unique_subfolder returns root/base when absent, else root/base-k for
\* the least k >= 1 that is absent (base taken gives base-1, base and base-1
\* taken give base-2); unique_zip_path the same over base.zip, base-k.zip;
\* the path returned does not exist, the probing ends within as many probes
\* as there are entries, and the directory is not changed.
C7_AllocatorsReturnFirstFreePath ==
    /\ pc = "mkdir" =>
          /\ pg_subfolder = FolderPath(FirstFree(FolderPath))
          /\ pg_subfolder \notin DOMAIN fs
          /\ (FolderPath(0) \in DOMAIN fs /\ FolderPath(1) \notin DOMAIN fs) =>
                pg_subfolder = PG_DIR \o SLASH \o base \o <<"-", "1">>
          /\ ({FolderPath(0), FolderPath(1)} \subseteq DOMAIN fs
                /\ FolderPath(2) \notin DOMAIN fs) =>
                pg_subfolder = PG_DIR \o SLASH \o base \o <<"-", "2">>
    /\ pc = "archive" =>
          /\ zip_path = ZipPath(FirstFree(ZipPath))
          /\ zip_path \notin DOMAIN fs
          /\ (ZipPath(0) \in DOMAIN fs /\ ZipPath(1) \notin DOMAIN fs) =>
                zip_path = base \o <<"-", "1">> \o ZIP_EXT
    /\ fs = fs0
    /\ k <= Cardinality(DOMAIN fs)
    /\ pc \in {"mkdir", "archive"} \/ ENABLED NextAlloc

C7_Witness ==
    /\ pc = "mkdir"
    /\ base = X_NAME
    /\ pg_subfolder = PG_DIR \o SLASH \o <<"x", "-", "2">>
    /\ PG_DIR \o SLASH \o <<"x", "-", "3">> \in DOMAIN fs

---------------------------------------------------------------------------
(* The capture against its description *)

\* "\r\n" and "\r" each become one "\n", in one pass over the text
RECURSIVE OneNewlineStyle(_)
OneNewlineStyle(s) ==
    IF s = <<>> THEN <<>>
    ELSE IF s[1] = CR
         THEN <<NL>> \o OneNewlineStyle(IF Len(s) >= 2 /\ s[2] = NL
                                         THEN SubSeq(s, 3, Len(s)) ELSE Tail(s))
    ELSE <<s[1]>> \o OneNewlineStyle(Tail(s))

LinesWithNewlines(ls) == Concat([i \in DOMAIN ls |-> ls[i] \o <<NL>>])

\* C8: whenever the interrupt arrives, the capture returns, and the text
\* returned is every line read before it, in order, each followed by one
\* newline, with "\r\n" and "\r" normalized to "\n".
C8_CaptureKeepsEveryLineRead ==
    /\ pc = "captured" => big_text = OneNewlineStyle(LinesWithNewlines(readLog))
    /\ pc = "captured" \/ ENABLED NextCapture

\* what holds instead: the text is that of the lines read, or of all but the
\* last one, the line input() had returned and lines.append had not yet taken
CaptureLosesAtMostLastLine ==
    pc = "captured" =>
        \/ big_text = OneNewlineStyle(LinesWithNewlines(readLog))
        \/ /\ readLog # <<>>
           /\ big_text = OneNewlineStyle(
                            LinesWithNewlines(SubSeq(readLog, 1, Len(readLog) - 1)))

---------------------------------------------------------------------------
(* main against its description *)

Exited == pc = "exited"
AllWhite(text) == \A i \in DOMAIN text : text[i] \in WhiteSpace

\* the paths of a kind that the current run has created or changed
Written(kind) ==
    {p \in DOMAIN fs : fs[p].kind = kind /\ (p \notin DOMAIN fs0 \/ fs0[p] # fs[p])}

\* a run that has not ended is at a step of main that can be taken
RunCanStep ==
    \/ pc \in {"prompt", "probe_folder", "mkdir", "input", "append", "captured",
                "extract", "loop", "extracted", "probe_zip", "archive"}
    \/ pc = "write" /\ fi <= Len(blocks)

C6_RunsNeverTouchPriorOutput ==
    /\ \A p \in DOMAIN fs0 : p \in DOMAIN fs /\ fs[p] = fs0[p]
    /\ pg_subfolder # <<>> => pg_subfolder \notin DOMAIN fs0
    /\ \A p \in Written("file") : IsPrefix(pg_subfolder \o SLASH, p)
    /\ Written("dir") \subseteq {PG_DIR, pg_subfolder}
    /\ (Exited /\ blocks # <<>>) =>
          \E z \in DOMAIN fs \ DOMAIN fs0 :
              /\ Written("zip") = {z}
              /\ z = zip_path
    /\ pc # "crashed" /\ exit # "error"

\* the run was given the name an earlier run's folder and zip were suffixed to
C6_Witness ==
    /\ Exited
    /\ runs = 2
    /\ blocks # <<>>
    /\ base = <<"x", "-", "1">>
    /\ pg_subfolder = PG_DIR \o SLASH \o <<"x", "-", "1", "-", "1">>
    /\ zip_path = <<"x", "-", "1", "-", "1">> \o ZIP_EXT

---------------------------------------------------------------------------
(* The blocks as substrings of the captured text *)

LinesTerminated(s) == s = <<>> \/ s[Len(s)] = NL

FirstNewlineFrom(s, p) ==
    CHOOSE n \in p..(Len(s) - 1) :
        s[n + 1] = NL /\ \A m \in p..(n - 1) : s[m + 1] # NL

\* begin markers from b on, minus end markers after b, up to and with e
Balance(s, b, e) ==
    Cardinality({x \in BeginOcc(s) : b <= x /\ x < e})
        - Cardinality({x \in EndOcc(s) : b < x /\ x <= e})

\* e is the end marker that brings the counter raised at b back to zero
ClosesAt(s, b, e) ==
    /\ b \in BeginOcc(s) /\ e \in EndOcc(s) /\ b < e
    /\ Balance(s, b, e) = 0
    /\ \A x \in EndOcc(s) : (b < x /\ x < e) => Balance(s, b, x) > 0

\* b is the first begin marker after the close of the block before
OpensAfter(s, b, prev) ==
    /\ b \in BeginOcc(s) /\ prev < b
    /\ \A x \in BeginOcc(s) : prev < x => b <= x

FilesWritten ==
    CASE pc = "write" -> fi - 1
      [] pc \in {"probe_zip", "archive"} -> Len(blocks)
      [] pc = "exited" /\ exit = "ok" -> Len(blocks)
      [] OTHER -> 0

\* C3: in a text of newline-terminated lines without "\r", every block is
\* the substring from the begin marker that raised the counter from 0 to 1
\* through the first newline after the end marker that brought it back to 0,
\* and the file written for block i holds exactly that substring.
C3_BlockIsSubstringThroughNewline ==
    (LinesTerminated(big_text) /\ CR \notin Range(big_text)) =>
        /\ \A i \in 1..Len(blocks) :
              LET b == spans[i].start
                  e == spans[i].pos
                  prev == IF i = 1 THEN -1 ELSE spans[i - 1].pos
              IN  /\ OpensAfter(big_text, b, prev)
                  /\ ClosesAt(big_text, b, e)
                  /\ blocks[i] = Slice(big_text, b,
                                       FirstNewlineFrom(big_text, e + Len(END_MARK)) + 1)
        /\ \A i \in 1..FilesWritten :
              /\ BlockFile(pg_subfolder, base, i) \in DOMAIN fs
              /\ fs[BlockFile(pg_subfolder, base, i)] =
                    FileEntry(Slice(big_text, spans[i].start,
                                    FirstNewlineFrom(big_text,
                                                     spans[i].pos + Len(END_MARK)) + 1))

\* a first block with a trailing comment on its last line, then a second block
C3_Witness ==
    /\ Exited
    /\ exit = "ok"
    /\ Len(blocks) = 2
    /\ big_text[spans[1].pos + Len(END_MARK) + 1] = " "
    /\ FilesWritten = 2

=============================================================================
